---- MODULE Spec2Model ----
(***************************************************************************)
(* gitpy: the header-text parser (src/key_value.py), the loose-object      *)
(* store (GitObj.write / GitRepository.object_read in src/lib.py), two     *)
(* processes racing in GitObj.write, and GitRepository.find_repo.          *)
(*                                                                         *)
(* Python bytes are sequences of byte values (0..255); a Python index i    *)
(* is the TLA+ index i+1.  A raised exception is a value carrying the      *)
(* exception's class name.                                                 *)
(***************************************************************************)
EXTENDS Integers, Sequences, FiniteSets, TLC

VARIABLES
    \* ---- key_value.py: one parse / serialize / parse pipeline
    kv_in,      \* how the input text was built (fields and tail)
    kv_raw,     \* the bytes handed to KeyValueStore.from_data
    kv_pc,      \* "start" | "parsed" | "serialized" | "reparsed"
    kv_obj,     \* result of from_data(kv_raw)
    kv_ser,     \* result of kv_obj.serialize()
    kv_obj2,    \* result of from_data(kv_ser)
    \* ---- lib.py: one caller of the object store
    st_foreign, \* the framed file found in the store at start (or none)
    st_fs,      \* .git/objects: its sub-directories and the files in them
    st_args,    \* class and data given to the constructor
    st_obj,     \* the object in hand (constructed or read back)
    st_pc,      \* "idle" | "constructed" | "written" | "read" |
                \* "serialized" | "looked_up"
    st_ret,     \* outcome of the last call: exception or value
    st_writes,  \* number of write() calls made on st_obj
    \* ---- lib.py: two processes in write() of the same object
    rc_obj,     \* the object both processes write
    rc_fs,      \* .git/objects, shared by the processes
    rc_proc,    \* per process: position in write(), file offset, outcome
    \* ---- lib.py: GitRepository.find_repo
    fr_git,     \* per directory: what its .git holds ("none": no .git)
    fr_start,   \* the path find_repo is called with
    fr_pc,      \* "start" | "loop_test" | "loop_body" | "done"
    fr_path,    \* local `path`
    fr_parent,  \* local `parent`
    fr_ret      \* outcome of find_repo

kv_vars == <<kv_in, kv_raw, kv_pc, kv_obj, kv_ser, kv_obj2>>
st_vars == <<st_foreign, st_fs, st_args, st_obj, st_pc, st_ret, st_writes>>
rc_vars == <<rc_obj, rc_fs, rc_proc>>
fr_vars == <<fr_git, fr_start, fr_pc, fr_path, fr_parent, fr_ret>>
vars == <<kv_vars, st_vars, rc_vars, fr_vars>>

\* ------------------------------------------------------------------------
\* bounds
MaxRaw    == 5     \* longest arbitrary byte string handed to from_data
MaxFields == 3     \* most header fields in a generated header text
MaxPayload == 2    \* longest object payload
MaxWrites == 2     \* most write() calls on one object
DigestLen == 4     \* hex characters of a digest (40 for SHA-1)
MaxChunks == 2     \* most write(2) calls one f.write() is split into
MaxDepth == 3      \* depth of the deepest directory below the root

\* ------------------------------------------------------------------------
\* bytes
ASCII_SPACE == 32
NULL_SEP    == 0
NEWLINE     == 10
Ord == [a |-> 97, b |-> 98, c |-> 99, d |-> 100, e |-> 101, f |-> 102,
        g |-> 103, h |-> 104, i |-> 105, l |-> 108, m |-> 109, n |-> 110,
        o |-> 111, r |-> 114, s |-> 115, t |-> 116, u |-> 117, x |-> 120,
        y |-> 121, z |-> 122, F |-> 70]

Min(p, q) == IF p <= q THEN p ELSE q
Max(p, q) == IF p >= q THEN p ELSE q

\* Python's normalisation of a slice / search bound k for a length-n buffer
Norm(n, k) == IF k < 0 THEN Max(0, n + k) ELSE Min(k, n)

\* raw[i:j]
Slice(raw, i, j) ==
    LET lo == Norm(Len(raw), i)
        hi == Norm(Len(raw), j)
    IN  IF lo >= hi THEN <<>> ELSE SubSeq(raw, lo + 1, hi)

\* raw.find(<one byte>, start): lowest index >= start holding the byte, or -1
find(raw, byte, start) ==
    LET lo   == Norm(Len(raw), start)
        hits == {i \in lo .. (Len(raw) - 1) : raw[i + 1] = byte}
    IN  IF hits = {} THEN -1
        ELSE CHOOSE i \in hits : \A j \in hits : i <= j

\* s.replace(old, new): leftmost non-overlapping occurrences
RECURSIVE replace(_, _, _)
replace(s, old, new) ==
    IF Len(s) < Len(old) THEN s
    ELSE IF SubSeq(s, 1, Len(old)) = old
         THEN new \o replace(SubSeq(s, Len(old) + 1, Len(s)), old, new)
         ELSE <<s[1]>> \o replace(Tail(s), old, new)

\* ------------------------------------------------------------------------
\* KeyValueStore (an OrderedDict): a sequence of entries in key insertion
\* order.  An entry holds the key, whether its value is a Python list, and
\* the value(s): a scalar value v is <<v>> with list = FALSE.
Entry(k, isList, vs) == [k |-> k, list |-> isList, vals |-> vs]

HasKey(obj, key) == \E i \in 1 .. Len(obj) : obj[i].k = key

\* KeyValueStore.__setitem__ (value is always a bytes object here)
KV_setitem(obj, key, value) ==
    IF HasKey(obj, key)
    THEN [i \in 1 .. Len(obj) |->
            IF obj[i].k = key
            THEN Entry(key, TRUE, Append(obj[i].vals, value))
            ELSE obj[i]]
    ELSE Append(obj, Entry(key, FALSE, <<value>>))

KVOk(obj)   == [exc |-> "none", map |-> obj]
KVRaise(e)  == [exc |-> e, map |-> <<>>]

\* the inner `while True` of from_data: scan for the end of the value
RECURSIVE from_data_value(_, _, _)
from_data_value(raw, space, end) ==
    LET e == find(raw, NEWLINE, end + 1)
    IN  IF e = -1
        THEN [exc |-> "none", end |-> -1,
              value |-> replace(Slice(raw, space + 1, Len(raw)),
                                <<NEWLINE, ASCII_SPACE>>, <<NEWLINE>>)]
        ELSE IF e + 1 >= Len(raw)                 \* raw[end + 1] out of range
        THEN [exc |-> "IndexError", end |-> e, value |-> <<>>]
        ELSE IF raw[e + 2] # ASCII_SPACE
        THEN [exc |-> "none", end |-> e,
              value |-> replace(Slice(raw, space + 1, e),
                                <<NEWLINE, ASCII_SPACE>>, <<NEWLINE>>)]
        ELSE from_data_value(raw, space, e)

\* the outer `while end != -1` of from_data
RECURSIVE from_data_loop(_, _, _, _, _)
from_data_loop(raw, obj, start, space, end) ==
    IF end = -1 THEN KVOk(obj)
    ELSE LET key == Slice(raw, start, end)
             r   == from_data_value(raw, space, end)
         IN  IF r.exc # "none" THEN KVRaise(r.exc)
             ELSE LET obj2 == KV_setitem(obj, key, r.value)
                  IN  IF r.end = -1 THEN KVOk(obj2)
                      ELSE LET start2 == r.end + 1
                               space2 == find(raw, ASCII_SPACE, start2)
                           IN  from_data_loop(raw, obj2, start2, space2, space2)

\* KeyValueStore.from_data
from_data(raw) ==
    LET space == find(raw, ASCII_SPACE, 0)
    IN  from_data_loop(raw, <<>>, 0, space, space)

\* b'\n'.join(parts)
RECURSIVE join(_, _)
join(sep, parts) ==
    IF parts = <<>> THEN <<>>
    ELSE IF Len(parts) = 1 THEN parts[1]
    ELSE parts[1] \o sep \o join(sep, Tail(parts))

\* KeyValueStore.serialize (binary=True): y.replace on a list value raises
KV_serialize(obj) ==
    IF \E i \in 1 .. Len(obj) : obj[i].list
    THEN [exc |-> "AttributeError", bytes |-> <<>>]
    ELSE [exc |-> "none",
          bytes |-> join(<<NEWLINE>>,
                         [i \in 1 .. Len(obj) |->
                            obj[i].k \o <<ASCII_SPACE>> \o
                            replace(obj[i].vals[1], <<NEWLINE>>,
                                    <<NEWLINE, ASCII_SPACE>>)])]

\* ------------------------------------------------------------------------
\* lib.py: values
None    == [none |-> TRUE, bytes |-> <<>>]
Some(b) == [none |-> FALSE, bytes |-> b]

Ret(v)   == [exc |-> "none", val |-> v]
Raise(e) == [exc |-> e, val |-> <<>>]

IsSpace(ch) == ch \in (9 .. 13) \cup (28 .. 32)
IsDigit(ch) == ch \in 48 .. 57

\* str(n).encode() for n >= 0
RECURSIVE py_str(_)
py_str(n) ==
    IF n < 10 THEN <<48 + n>> ELSE py_str(n \div 10) \o <<48 + (n % 10)>>

RECURSIVE lstrip(_)
lstrip(s) == IF s # <<>> /\ IsSpace(s[1]) THEN lstrip(Tail(s)) ELSE s

RECURSIVE rstrip(_)
rstrip(s) ==
    IF s # <<>> /\ IsSpace(s[Len(s)])
    THEN rstrip(SubSeq(s, 1, Len(s) - 1)) ELSE s

RECURSIVE digits_value(_, _)
digits_value(s, acc) ==
    IF s = <<>> THEN acc
    ELSE IF s[1] = 95 THEN digits_value(Tail(s), acc)
    ELSE digits_value(Tail(s), acc * 10 + (s[1] - 48))

\* int(b.decode("ascii")): surrounding whitespace, an optional sign, decimal
\* digits with single underscores between them
py_int(b) ==
    IF \E i \in 1 .. Len(b) : b[i] >= 128 THEN Raise("UnicodeDecodeError")
    ELSE LET t      == rstrip(lstrip(b))
             signed == t # <<>> /\ t[1] \in {43, 45}
             d      == IF signed THEN Tail(t) ELSE t
             wellformed ==
                 /\ d # <<>>
                 /\ \A i \in 1 .. Len(d) :
                       \/ IsDigit(d[i])
                       \/ /\ d[i] = 95
                          /\ i > 1
                          /\ i < Len(d)
                          /\ IsDigit(d[i - 1])
                          /\ IsDigit(d[i + 1])
         IN  IF ~wellformed THEN Raise("ValueError: invalid literal")
             ELSE IF signed /\ t[1] = 45 THEN Ret(0 - digits_value(d, 0))
             ELSE Ret(digits_value(d, 0))

\* hashlib.sha1(b).hexdigest(), scaled down to DigestLen hex characters: a
\* deterministic digest of all the bytes (collisions are possible here)
RECURSIVE Pow16(_)
Pow16(n) == IF n = 0 THEN 1 ELSE 16 * Pow16(n - 1)

RECURSIVE digest_value(_, _)
digest_value(b, acc) ==
    IF b = <<>> THEN acc
    ELSE digest_value(Tail(b), (acc * 33 + b[1] + 1) % Pow16(DigestLen))

HexChar(v) == IF v < 10 THEN 48 + v ELSE 87 + v

sha1_hexdigest(b) ==
    LET h == digest_value(b, 5381 % Pow16(DigestLen))
    IN  [i \in 1 .. DigestLen |->
            HexChar((h \div Pow16(DigestLen - i)) % 16)]

\* zlib: the stream is modelled with one stored DEFLATE block (the level-0
\* encoding: 2-byte header, block header, LEN, ~LEN, the data, Adler-32);
\* the default level picks another block encoding of the same data
RECURSIVE adler32(_, _, _)
adler32(b, s1, s2) ==
    IF b = <<>> THEN <<s2 \div 256, s2 % 256, s1 \div 256, s1 % 256>>
    ELSE LET t == (s1 + b[1]) % 65521
         IN  adler32(Tail(b), t, (s2 + t) % 65521)

LE16(n) == <<n % 256, n \div 256>>

zlib_compress(b) ==
    <<120, 1, 1>> \o LE16(Len(b)) \o LE16(65535 - Len(b)) \o b
    \o adler32(b, 1, 0)

zlib_decompress(f) ==
    IF /\ Len(f) >= 11
       /\ SubSeq(f, 1, 3) = <<120, 1, 1>>
       /\ LET n == f[4] + 256 * f[5]
          IN  /\ LE16(65535 - n) = SubSeq(f, 6, 7)
              /\ Len(f) = 11 + n
              /\ SubSeq(f, 8 + n, 11 + n) = adler32(SubSeq(f, 8, 7 + n), 1, 0)
    THEN Ret(SubSeq(f, 8, Len(f) - 4))
    ELSE Raise("zlib.error")

\* ------------------------------------------------------------------------
\* GitObj and its subclasses
Classes == {"GitBlob", "GitCommit", "GitTree", "GitTag"}

GitObject(cls, blob) == [cls |-> cls, blob_data |-> blob]
NoObject == [cls |-> "none", blob_data |-> None]

\* <cls>.deserialize(data): only GitBlob overrides it
deserialize(cls, data) ==
    IF cls = "GitBlob" THEN Ret(GitObject(cls, Some(data)))
    ELSE Raise("NotImplementedError")

\* <cls>(repo, data): GitBlob.__init__ sets blob_data = None, then
\* GitObj.__init__ deserializes only when data is truthy (non-empty)
GitObj_init(cls, data) ==
    IF data # <<>> THEN deserialize(cls, data)
    ELSE Ret(GitObject(cls, None))

\* obj.serialize(): only GitBlob overrides it, returning blob_data as it is
serialize(obj) ==
    IF obj.cls = "GitBlob" THEN Ret(obj.blob_data)
    ELSE Raise("NotImplementedError")

blob_fmt == <<Ord.b, Ord.l, Ord.o, Ord.b>>
commit_fmt == <<Ord.c, Ord.o, Ord.m, Ord.m, Ord.i, Ord.t>>
tree_fmt == <<Ord.t, Ord.r, Ord.e, Ord.e>>
tag_fmt == <<Ord.t, Ord.a, Ord.g>>

\* obj.fmt: only GitBlob.__init__ sets it
fmt_of(obj) ==
    IF obj.cls = "GitBlob" THEN Ret(blob_fmt) ELSE Raise("AttributeError")

\* obj.header: serialize() first, then len() of what it returned
header(obj) ==
    LET data == serialize(obj)
    IN  IF data.exc # "none" THEN data
        ELSE IF data.val.none THEN Raise("TypeError")
        ELSE IF fmt_of(obj).exc # "none" THEN fmt_of(obj)
        ELSE Ret(fmt_of(obj).val \o <<ASCII_SPACE>>
                 \o py_str(Len(data.val.bytes))
                 \o <<NULL_SEP>> \o data.val.bytes)

\* a lookup that falls back to GitBlob
GIT_OBJECTS_get_default(fmt) ==
    IF fmt = commit_fmt THEN "GitCommit"
    ELSE IF fmt = tree_fmt THEN "GitTree"
    ELSE IF fmt = tag_fmt THEN "GitTag"
    ELSE "GitBlob"

\* GIT_OBJECTS.get(fmt)
GIT_OBJECTS_get(fmt) ==
    IF fmt = commit_fmt THEN "GitCommit"
    ELSE IF fmt = tree_fmt THEN "GitTree"
    ELSE IF fmt = tag_fmt THEN "GitTag"
    ELSE IF fmt = blob_fmt THEN "GitBlob"
    ELSE "None"

\* ------------------------------------------------------------------------
\* .git/objects: the names in it that are directories, the names in it that
\* are something else, and the files in the directories (<<dir, name>>)
EmptyFs == [dirs |-> {}, plain |-> {}, files |-> <<>>]

FsResult(r, fs) == [exc |-> r.exc, val |-> r.val, fs |-> fs]

FsPut(fs, path, content) ==
    [fs EXCEPT !.files =
        [q \in (DOMAIN fs.files) \cup {path} |->
            IF q = path THEN content ELSE fs.files[q]]]

\* os.makedirs(path) for path = .git/objects/<dir>; .git/objects exists
os_makedirs(fs, dir) ==
    IF dir \in fs.dirs \cup fs.plain
    THEN FsResult(Raise("FileExistsError"), fs)
    ELSE FsResult(Ret(Some(<<dir>>)), [fs EXCEPT !.dirs = @ \cup {dir}])

\* repo_dir creating the directory without looking first
repo_dir_always_mkdir(fs, dir, mkdir) ==
    IF mkdir THEN os_makedirs(fs, dir)
    ELSE IF dir \in fs.dirs THEN FsResult(Ret(Some(<<dir>>)), fs)
    ELSE FsResult(Ret(None), fs)

\* repo.repo_dir("objects", dir, mkdir=mkdir)
repo_dir(fs, dir, mkdir) ==
    IF dir \in fs.dirs \cup fs.plain
    THEN IF dir \in fs.dirs THEN FsResult(Ret(Some(<<dir>>)), fs)
         ELSE FsResult(Raise("Exception: not a directory"), fs)
    ELSE IF mkdir THEN os_makedirs(fs, dir)
    ELSE FsResult(Ret(None), fs)

\* repo.repo_file("objects", dir, name, mkdir=mkdir): the path, or None
repo_file(fs, dir, name, mkdir) ==
    LET d == repo_dir(fs, dir, mkdir)
    IN  IF d.exc # "none" THEN d
        ELSE IF d.val.none THEN d
        ELSE FsResult(Ret(Some(<<dir, name>>)), d.fs)

\* obj.write(): returns the digest
write(obj, fs) ==
    LET h == header(obj)
    IN  IF h.exc # "none" THEN FsResult(h, fs)
        ELSE LET sha  == sha1_hexdigest(h.val)
                 path == repo_file(fs, Slice(sha, 0, 2),
                                   Slice(sha, 2, Len(sha)), TRUE)
             IN  IF path.exc # "none" THEN path
                 ELSE FsResult(Ret(sha),
                               FsPut(path.fs, path.val.bytes,
                                     zlib_compress(h.val)))

\* the length test counting the separator as payload
bad_length_off_by_one(size, raw, y) == size # Len(raw) - y

\* the length test of object_read
bad_length(size, raw, y) == size # Len(raw) - y - 1

\* repo.object_read(sha)
object_read(fs, sha) ==
    LET path == repo_file(fs, Slice(sha, 0, 2), Slice(sha, 2, Len(sha)), FALSE)
    IN  IF path.exc # "none" THEN Raise(path.exc)
        ELSE IF path.val.none THEN Raise("TypeError")           \* open(None)
        ELSE IF path.val.bytes \notin DOMAIN fs.files
        THEN Raise("FileNotFoundError")
        ELSE LET z == zlib_decompress(fs.files[path.val.bytes])
             IN  IF z.exc # "none" THEN z
                 ELSE LET raw  == z.val
                          x    == find(raw, ASCII_SPACE, 0)
                          fmt  == Slice(raw, 0, x)
                          y    == find(raw, NULL_SEP, x)
                          size == py_int(Slice(raw, x, y))
                      IN  IF size.exc # "none" THEN size
                          ELSE IF bad_length(size.val, raw, y)
                          THEN Raise("Exception: bad length")
                          ELSE IF GIT_OBJECTS_get(fmt) = "None"
                          THEN Raise("ValueError: not a valid format")
                          ELSE GitObj_init(GIT_OBJECTS_get(fmt),
                                           Slice(raw, y + 1, Len(raw)))

\* ------------------------------------------------------------------------
\* header texts handed to from_data
RECURSIVE SeqsUpTo(_, _)
SeqsUpTo(S, n) ==
    IF n = 0 THEN {<<>>}
    ELSE LET shorter == SeqsUpTo(S, n - 1)
         IN  shorter \cup {Append(s, e) : s \in shorter, e \in S}

KVKeys   == {<<Ord.a>>, <<Ord.b>>}
KVValues == {<<Ord.x>>, <<Ord.z>>}
KVConts  == {<<>>, <<<<Ord.m>>>>, <<<<Ord.m>>, <<Ord.n>>>>}
KVFields == {[k |-> k, v |-> v, conts |-> cs] :
                k \in KVKeys, v \in KVValues, cs \in KVConts}

\* what follows the last field: nothing, a newline, or a blank line and
\* free text (without and with a space in it)
NoTail   == <<>>
NlTail   == <<NEWLINE>>
MsgTail  == <<NEWLINE, NEWLINE, Ord.m>>
MsgTail2 == <<NEWLINE, NEWLINE, Ord.c, ASCII_SPACE, Ord.m>>
KVTails  == {NoTail, NlTail, MsgTail, MsgTail2}

\* one field: key SP value, each continuation line as NL SP line
RECURSIVE FieldConts(_)
FieldConts(cs) ==
    IF cs = <<>> THEN <<>>
    ELSE <<NEWLINE, ASCII_SPACE>> \o cs[1] \o FieldConts(Tail(cs))

FieldText(f) == f.k \o <<ASCII_SPACE>> \o f.v \o FieldConts(f.conts)

HeaderText(in) ==
    join(<<NEWLINE>>, [i \in 1 .. Len(in.fields) |-> FieldText(in.fields[i])])
    \o in.tail

\* the two header texts quoted in the specification's testable properties
Example3 ==
    [fields |-> << [k |-> <<Ord.a>>, v |-> <<Ord.x>>, conts |-> <<>>],
                   [k |-> <<Ord.b>>, v |-> <<Ord.y>>, conts |-> <<>>],
                   [k |-> <<Ord.a>>, v |-> <<Ord.z>>, conts |-> <<>>] >>,
     tail |-> NlTail]
Example4 ==
    [fields |->
        << [k |-> <<Ord.t, Ord.r, Ord.e, Ord.e>>,
            v |-> <<Ord.a, Ord.b, Ord.c>>, conts |-> <<>>],
           [k |-> <<Ord.a, Ord.u, Ord.t, Ord.h, Ord.o, Ord.r>>,
            v |-> <<Ord.F, Ord.o, Ord.o>>,
            conts |-> << <<Ord.m, Ord.u, Ord.l, Ord.t, Ord.i, Ord.l, Ord.i,
                           Ord.n, Ord.e>>,
                         <<Ord.c, Ord.o, Ord.n, Ord.t, Ord.i, Ord.n, Ord.u,
                           Ord.e, Ord.d>> >>] >>,
     tail |-> <<NEWLINE, NEWLINE, Ord.c, Ord.o, Ord.m, Ord.m, Ord.i, Ord.t,
                ASCII_SPACE, Ord.m, Ord.s, Ord.g>>]

KVBytes  == {Ord.a, Ord.b, ASCII_SPACE, NEWLINE}
KVInputs ==
    {[fields |-> fs, tail |-> t] :
        fs \in (SeqsUpTo(KVFields, MaxFields) \ {<<>>}), t \in KVTails}
    \cup {[fields |-> <<>>, tail |-> r] : r \in SeqsUpTo(KVBytes, MaxRaw)}
    \cup {Example3, Example4}

\* ------------------------------------------------------------------------
\* the parser pipeline: from_data, serialize, from_data again
KVNone == [exc |-> "unset", map |-> <<>>]
KVNoBytes == [exc |-> "unset", bytes |-> <<>>]

KVParse ==
    /\ kv_pc = "start"
    /\ kv_obj' = from_data(kv_raw)
    /\ kv_pc' = "parsed"
    /\ UNCHANGED <<kv_in, kv_raw, kv_ser, kv_obj2, st_vars, rc_vars, fr_vars>>

KVSerialize ==
    /\ kv_pc = "parsed"
    /\ kv_obj.exc = "none"
    /\ kv_ser' = KV_serialize(kv_obj.map)
    /\ kv_pc' = "serialized"
    /\ UNCHANGED <<kv_in, kv_raw, kv_obj, kv_obj2, st_vars, rc_vars, fr_vars>>

KVReparse ==
    /\ kv_pc = "serialized"
    /\ kv_ser.exc = "none"
    /\ kv_obj2' = from_data(kv_ser.bytes)
    /\ kv_pc' = "reparsed"
    /\ UNCHANGED <<kv_in, kv_raw, kv_obj, kv_ser, st_vars, rc_vars, fr_vars>>

KVNext == KVParse \/ KVSerialize \/ KVReparse


\* ------------------------------------------------------------------------
\* what a header text built from fields is expected to parse to

\* the value of one field: first line and continuation lines, newline-joined
FieldValue(f) == join(<<NEWLINE>>, <<f.v>> \o f.conts)

RECURSIVE ValuesOf(_, _)
ValuesOf(fields, key) ==
    IF fields = <<>> THEN <<>>
    ELSE (IF fields[1].k = key THEN <<FieldValue(fields[1])>> ELSE <<>>)
         \o ValuesOf(Tail(fields), key)

RECURSIVE FirstKeys(_, _)
FirstKeys(fields, seen) ==
    IF fields = <<>> THEN <<>>
    ELSE IF fields[1].k \in seen THEN FirstKeys(Tail(fields), seen)
    ELSE <<fields[1].k>> \o FirstKeys(Tail(fields), seen \cup {fields[1].k})

ExpectedMap(fields) ==
    LET keys == FirstKeys(fields, {})
    IN  [i \in 1 .. Len(keys) |->
            Entry(keys[i], Len(ValuesOf(fields, keys[i])) > 1,
                  ValuesOf(fields, keys[i]))]

MapKeys(obj) == [i \in 1 .. Len(obj) |-> obj[i].k]

IsFreeTextTail(t) == Len(t) > 2 /\ SubSeq(t, 1, 2) = <<NEWLINE, NEWLINE>>

\* C2: header-text round trip: every map from_data returns serializes, and
\* parsing the serialized text gives the same map (same keys, same key
\* order, same list-versus-scalar shape for each key).
C2_HeaderRoundTrip ==
    /\ (kv_pc = "serialized" => kv_ser.exc = "none")
    /\ (kv_pc = "reparsed" => kv_obj2 = kv_obj)

\* C3: duplicate-key accumulation: a header text of newline-terminated
\* `key SP value` lines parses to the map in which a key occurring once holds
\* its bare value and a key occurring n > 1 times holds the list of its n
\* values in order of occurrence.
C3_DuplicateKeys ==
    (/\ kv_pc # "start"
     /\ kv_in.fields # <<>>
     /\ \A i \in 1 .. Len(kv_in.fields) : kv_in.fields[i].conts = <<>>
     /\ kv_in.tail = NlTail)
    => kv_obj = KVOk(ExpectedMap(kv_in.fields))

\* C4: multiline continuation: a field whose first line is followed by
\* k >= 1 lines beginning with a single space is stored under its key as the
\* first-line value and the k continuation lines joined by bare newlines,
\* the value ending at the first newline not followed by a space.
C4_Multiline ==
    (kv_pc # "start" /\ kv_in.fields # <<>>)
    => \A i \in 1 .. Len(kv_in.fields) :
          kv_in.fields[i].conts # <<>>
          => /\ kv_obj.exc = "none"
             /\ \E j \in 1 .. Len(kv_obj.map) :
                   /\ kv_obj.map[j].k = kv_in.fields[i].k
                   /\ kv_obj.map[j].vals = ValuesOf(kv_in.fields, kv_in.fields[i].k)
                   /\ kv_obj.map[j].list = (Len(kv_obj.map[j].vals) > 1)

\* C5: trailing free text is not a key: for key/value lines followed by a
\* blank line and free text, the keys of the returned map are exactly the
\* keys of the header fields.
C5_FreeTextNotKey ==
    (kv_pc # "start" /\ kv_in.fields # <<>> /\ IsFreeTextTail(kv_in.tail))
    => /\ kv_obj.exc = "none"
       /\ MapKeys(kv_obj.map) = FirstKeys(kv_in.fields, {})

\* ------------------------------------------------------------------------
\* the object store and one caller: construct, write (once or more), read
\* back, serialize; or read the file that was in the store at start

foo_fmt == <<Ord.f, Ord.o, Ord.o>>
blo_fmt == <<Ord.b, Ord.l, Ord.o>>

Payloads     == SeqsUpTo({Ord.x, NULL_SEP}, MaxPayload)
ForeignTags  == {blob_fmt, commit_fmt, tree_fmt, tag_fmt,
                 foo_fmt, blo_fmt, <<>>}
DeclaredLens == (0 .. (MaxPayload + 1)) \cup {10}

\* a stored file <tag> SP <decimal n> NUL <payload>, compressed
ForeignFiles ==
    {[tag |-> t, n |-> n, payload |-> pl] :
        t \in ForeignTags, n \in DeclaredLens, pl \in Payloads}
NoForeign == [tag |-> <<>>, n |-> -1, payload |-> <<>>]

Framed(f) ==
    f.tag \o <<ASCII_SPACE>> \o py_str(f.n) \o <<NULL_SEP>> \o f.payload

StoreWith(f) ==
    IF f.n = -1 THEN EmptyFs
    ELSE LET sha == sha1_hexdigest(Framed(f))
         IN  [dirs  |-> {Slice(sha, 0, 2)},
              plain |-> {},
              files |-> (<<Slice(sha, 0, 2), Slice(sha, 2, Len(sha))>>
                            :> zlib_compress(Framed(f)))]

StoredDigests(fs) == {q[1] \o q[2] : q \in DOMAIN fs.files}

NoArgs == [cls |-> "none", data |-> <<>>]

\* obj = <cls>(repo, data)
StNew(cls, data) ==
    /\ st_pc = "idle"
    /\ st_args' = [cls |-> cls, data |-> data]
    /\ st_ret' = GitObj_init(cls, data)
    /\ st_obj' = IF st_ret'.exc = "none" THEN st_ret'.val ELSE NoObject
    /\ st_pc' = "constructed"
    /\ UNCHANGED <<st_foreign, st_fs, st_writes, kv_vars, rc_vars, fr_vars>>

\* obj.write(), a first time or again
StWrite ==
    /\ st_pc \in {"constructed", "written"}
    /\ st_pc = "constructed" => st_ret.exc = "none"
    /\ st_writes < MaxWrites
    /\ LET r == write(st_obj, st_fs)
       IN  /\ st_fs' = r.fs
           /\ st_ret' = [exc |-> r.exc, val |-> r.val]
    /\ st_pc' = "written"
    /\ st_writes' = st_writes + 1
    /\ UNCHANGED <<st_foreign, st_args, st_obj, kv_vars, rc_vars, fr_vars>>

\* repo.object_read(<the digest write() returned>)
StReadBack ==
    /\ st_pc = "written"
    /\ st_ret.exc = "none"
    /\ st_ret' = object_read(st_fs, st_ret.val)
    /\ st_obj' = IF st_ret'.exc = "none" THEN st_ret'.val ELSE NoObject
    /\ st_pc' = "read"
    /\ UNCHANGED <<st_foreign, st_fs, st_args, st_writes, kv_vars, rc_vars, fr_vars>>

\* obj.serialize() on the object read back
StSerialize ==
    /\ st_pc = "read"
    /\ st_ret.exc = "none"
    /\ st_ret' = serialize(st_obj)
    /\ st_pc' = "serialized"
    /\ UNCHANGED <<st_foreign, st_fs, st_args, st_obj, st_writes, kv_vars, rc_vars, fr_vars>>

\* repo.object_read(sha) of a file already in the store
StReadStored(sha) ==
    /\ st_pc = "idle"
    /\ st_ret' = object_read(st_fs, sha)
    /\ st_obj' = IF st_ret'.exc = "none" THEN st_ret'.val ELSE NoObject
    /\ st_pc' = "looked_up"
    /\ UNCHANGED <<st_foreign, st_fs, st_args, st_writes, kv_vars, rc_vars, fr_vars>>

StNext ==
    \/ \E cls \in Classes, data \in Payloads : StNew(cls, data)
    \/ StWrite
    \/ StReadBack
    \/ StSerialize
    \/ \E sha \in StoredDigests(st_fs) : StReadStored(sha)

\* C1: object round trip: for every payload P (the empty one included) and
\* every class V, V(repo, P), write() and object_read() of the returned digest
\* all succeed and the object read back serializes to P.
C1_ObjectRoundTrip ==
    /\ st_pc \in {"constructed", "written", "read", "serialized"}
          => st_ret.exc = "none"
    /\ st_pc = "serialized" => st_ret.val = Some(st_args.data)

\* C6: length-mismatch detection: reading a stored file
\* <tag> SP <decimal n> NUL <payload> with n # len(payload) fails with the
\* bad-length error, whichever tag it names; no object is returned.
C6_LengthMismatch ==
    (st_pc = "looked_up" /\ st_foreign.n # Len(st_foreign.payload))
    => (st_ret.exc = "Exception: bad length" /\ st_obj = NoObject)

C6_Witness ==
    /\ st_pc = "looked_up"
    /\ st_foreign.tag = blob_fmt
    /\ st_foreign.n = 1
    /\ Len(st_foreign.payload) = 2
    /\ st_ret.exc = "Exception: bad length"

\* C7: unknown type rejection: reading a stored framed header whose declared
\* length matches its payload and whose tag is none of blob, commit, tag,
\* tree fails with the not-a-valid-format error; no object is returned.
C7_UnknownType ==
    (/\ st_pc = "looked_up"
     /\ st_foreign.n = Len(st_foreign.payload)
     /\ st_foreign.tag \notin {blob_fmt, commit_fmt, tag_fmt, tree_fmt})
    => (st_ret.exc = "ValueError: not a valid format" /\ st_obj = NoObject)

C7_Witness ==
    /\ st_pc = "looked_up"
    /\ st_foreign.tag = foo_fmt
    /\ st_foreign.n = Len(st_foreign.payload)
    /\ st_foreign.n > 0
    /\ st_ret.exc = "ValueError: not a valid format"

Procs == {1, 2}

rc_header == header(rc_obj).val
rc_sha    == sha1_hexdigest(rc_header)
rc_dir    == Slice(rc_sha, 0, 2)
rc_path   == <<rc_dir, Slice(rc_sha, 2, Len(rc_sha))>>
rc_buf    == zlib_compress(rc_header)

ChunkLen(buf) == (Len(buf) + MaxChunks - 1) \div MaxChunks

\* write(2) of chunk at offset off: a gap below off reads as zero bytes
pwrite(content, off, chunk) ==
    [i \in 1 .. Max(Len(content), off + Len(chunk)) |->
        IF i > off /\ i <= off + Len(chunk) THEN chunk[i - off]
        ELSE IF i <= Len(content) THEN content[i]
        ELSE 0]

RcAt(p, pc) == rc_proc[p].pc = pc
RcGoto(p, pc) == rc_proc' = [rc_proc EXCEPT ![p].pc = pc]
RcDone(p, r) == rc_proc' = [rc_proc EXCEPT ![p].pc = "done", ![p].ret = r]

\* sha = hashlib.sha1(self.header).hexdigest()
RcHash(p) ==
    /\ RcAt(p, "start")
    /\ IF header(rc_obj).exc # "none"
       THEN RcDone(p, header(rc_obj))
       ELSE RcGoto(p, "exists")
    /\ UNCHANGED <<rc_obj, rc_fs, kv_vars, st_vars, fr_vars>>

\* repo_dir: path_exists(path), is_dir(path)
RcExists(p) ==
    /\ RcAt(p, "exists")
    /\ IF rc_dir \in rc_fs.dirs THEN RcGoto(p, "open")
       ELSE IF rc_dir \in rc_fs.plain
       THEN RcDone(p, Raise("Exception: not a directory"))
       ELSE RcGoto(p, "mkdir")
    /\ UNCHANGED <<rc_obj, rc_fs, kv_vars, st_vars, fr_vars>>

\* repo_dir: os.makedirs(path)
RcMkdir(p) ==
    /\ RcAt(p, "mkdir")
    /\ LET r == os_makedirs(rc_fs, rc_dir)
       IN  /\ rc_fs' = r.fs
           /\ IF r.exc # "none"
              THEN RcDone(p, Raise(r.exc))
              ELSE RcGoto(p, "open")
    /\ UNCHANGED <<rc_obj, kv_vars, st_vars, fr_vars>>

\* open(path, 'wb'): create or truncate, offset 0
RcOpen(p) ==
    /\ RcAt(p, "open")
    /\ rc_fs' = FsPut(rc_fs, rc_path, <<>>)
    /\ rc_proc' = [rc_proc EXCEPT ![p].pc = "write", ![p].off = 0]
    /\ UNCHANGED <<rc_obj, kv_vars, st_vars, fr_vars>>

\* f.write(zlib.compress(self.header)): the next chunk reaches the file
RcWriteChunk(p) ==
    /\ RcAt(p, "write")
    /\ LET off   == rc_proc[p].off
           upto  == Min(off + ChunkLen(rc_buf), Len(rc_buf))
           chunk == SubSeq(rc_buf, off + 1, upto)
       IN  /\ rc_fs' = FsPut(rc_fs, rc_path,
                             pwrite(rc_fs.files[rc_path], off, chunk))
           /\ rc_proc' = [rc_proc EXCEPT
                             ![p].off = upto,
                             ![p].pc = IF upto = Len(rc_buf)
                                       THEN "close" ELSE "write"]
    /\ UNCHANGED <<rc_obj, kv_vars, st_vars, fr_vars>>

\* leaving the with block closes the file; return sha
RcClose(p) ==
    /\ RcAt(p, "close")
    /\ RcDone(p, Ret(rc_sha))
    /\ UNCHANGED <<rc_obj, rc_fs, kv_vars, st_vars, fr_vars>>

RcNext ==
    \E p \in Procs :
        \/ RcHash(p)
        \/ RcExists(p)
        \/ RcMkdir(p)
        \/ RcOpen(p)
        \/ RcWriteChunk(p)
        \/ RcClose(p)

\* the stores the race can start from: nothing written yet, the object's
\* directory there already, or the object itself written earlier
RcStores(obj) ==
    {EmptyFs,
     [EmptyFs EXCEPT !.dirs = {Slice(sha1_hexdigest(header(obj).val), 0, 2)}],
     write(obj, EmptyFs).fs}

RcObjects == {GitObject("GitBlob", Some(d)) : d \in Payloads \ {<<>>}}

RcProc0 == [pc |-> "start", off |-> 0, ret |-> Ret(<<>>)]

\* C9: lock-free concurrent writes are safe: however the steps of two
\* write() calls of the same object interleave, neither call fails, both
\* return the same digest, and once both have finished the file at the
\* digest's path holds the complete compressed framed header.
C9_ConcurrentWritesSafe ==
    /\ \A p \in Procs :
          RcAt(p, "done") => rc_proc[p].ret = Ret(rc_sha)
    /\ (\A p \in Procs : RcAt(p, "done"))
          => (rc_path \in DOMAIN rc_fs.files /\ rc_fs.files[rc_path] = rc_buf)

\* ------------------------------------------------------------------------
\* GitRepository.find_repo on a chain of directories /, /a, /a/a, ...
Dirs == SeqsUpTo({"a"}, MaxDepth)
GitDirStates == {"none", "ok", "noconfig", "badversion"}

\* os.path.realpath(os.path.join(path, "..")) (no symbolic links)
parent_of(path) ==
    IF path = <<>> THEN <<>> ELSE SubSeq(path, 1, Len(path) - 1)

is_repo_base_dir(git, path) == git[path] # "none"

\* GitRepository(path): force is False, path/.git is a directory
GitRepository_init(git, path) ==
    IF git[path] = "ok" THEN Ret(Some(path))
    ELSE IF git[path] = "none" THEN Raise("Exception: not a Git repository")
    ELSE IF git[path] = "noconfig" THEN Raise("Exception: no config file")
    ELSE Raise("Exception: unsupported repositoryformatversion")

FrReturn(r) == fr_pc' = "done" /\ fr_ret' = r

\* path = realpath(path); the first is_repo_base_dir test; parent = ...
FindStart ==
    /\ fr_pc = "start"
    /\ fr_path' = fr_start
    /\ IF is_repo_base_dir(fr_git, fr_start)
       THEN FrReturn(GitRepository_init(fr_git, fr_start))
            /\ UNCHANGED fr_parent
       ELSE /\ fr_parent' = parent_of(fr_start)
            /\ fr_pc' = "loop_test"
            /\ UNCHANGED fr_ret
    /\ UNCHANGED <<fr_git, fr_start, kv_vars, st_vars, rc_vars>>

\* while parent != path: if is_repo_base_dir(parent): return cls(parent)
FindLoopTest ==
    /\ fr_pc = "loop_test"
    /\ IF fr_parent = fr_path THEN FrReturn(Ret(None))
       ELSE IF is_repo_base_dir(fr_git, fr_parent)
       THEN FrReturn(GitRepository_init(fr_git, fr_parent))
       ELSE fr_pc' = "loop_body" /\ UNCHANGED fr_ret
    /\ UNCHANGED <<fr_git, fr_start, fr_path, fr_parent,
                   kv_vars, st_vars, rc_vars>>

\* parent = os.path.realpath(os.path.join(path, ".."))
FindLoopBody ==
    /\ fr_pc = "loop_body"
    /\ fr_parent' = parent_of(fr_path)
    /\ fr_pc' = "loop_test"
    /\ UNCHANGED <<fr_git, fr_start, fr_path, fr_ret,
                   kv_vars, st_vars, rc_vars>>

FindNext == FindStart \/ FindLoopTest \/ FindLoopBody

\* C10: repository discovery terminates: for every start path find_repo
\* eventually returns (the repository of the nearest directory among the
\* start path and its ancestors that has a .git directory, or None when
\* there is none).
C10_FindRepoReturns == <>(fr_pc = "done")


\* ------------------------------------------------------------------------
\* Each component is explored on its own; the variables of the other
\* components keep their idle values.
RcIdleProc == [p \in Procs |-> [pc |-> "off", off |-> 0, ret |-> Ret(<<>>)]]
FrIdleGit == [d \in Dirs |-> "none"]

KVInit ==
    /\ kv_in \in KVInputs
    /\ kv_raw = HeaderText(kv_in)
    /\ kv_pc = "start"
    /\ kv_obj = KVNone
    /\ kv_ser = KVNoBytes
    /\ kv_obj2 = KVNone
    /\ st_foreign = NoForeign
    /\ st_fs = EmptyFs
    /\ st_args = NoArgs
    /\ st_obj = NoObject
    /\ st_pc = "off"
    /\ st_ret = Ret(<<>>)
    /\ st_writes = 0
    /\ rc_obj = NoObject
    /\ rc_fs = EmptyFs
    /\ rc_proc = RcIdleProc
    /\ fr_git = FrIdleGit
    /\ fr_start = <<>>
    /\ fr_pc = "off"
    /\ fr_path = <<>>
    /\ fr_parent = <<>>
    /\ fr_ret = Ret(None)

StInit ==
    /\ st_foreign \in ForeignFiles \cup {NoForeign}
    /\ st_fs = StoreWith(st_foreign)
    /\ st_args = NoArgs
    /\ st_obj = NoObject
    /\ st_pc = "idle"
    /\ st_ret = Ret(<<>>)
    /\ st_writes = 0
    /\ kv_in = [fields |-> <<>>, tail |-> <<>>]
    /\ kv_raw = <<>>
    /\ kv_pc = "off"
    /\ kv_obj = KVNone
    /\ kv_ser = KVNoBytes
    /\ kv_obj2 = KVNone
    /\ rc_obj = NoObject
    /\ rc_fs = EmptyFs
    /\ rc_proc = RcIdleProc
    /\ fr_git = FrIdleGit
    /\ fr_start = <<>>
    /\ fr_pc = "off"
    /\ fr_path = <<>>
    /\ fr_parent = <<>>
    /\ fr_ret = Ret(None)

RcInit ==
    /\ rc_obj \in RcObjects
    /\ rc_fs \in RcStores(rc_obj)
    /\ rc_proc = [p \in Procs |-> RcProc0]
    /\ kv_in = [fields |-> <<>>, tail |-> <<>>]
    /\ kv_raw = <<>>
    /\ kv_pc = "off"
    /\ kv_obj = KVNone
    /\ kv_ser = KVNoBytes
    /\ kv_obj2 = KVNone
    /\ st_foreign = NoForeign
    /\ st_fs = EmptyFs
    /\ st_args = NoArgs
    /\ st_obj = NoObject
    /\ st_pc = "off"
    /\ st_ret = Ret(<<>>)
    /\ st_writes = 0
    /\ fr_git = FrIdleGit
    /\ fr_start = <<>>
    /\ fr_pc = "off"
    /\ fr_path = <<>>
    /\ fr_parent = <<>>
    /\ fr_ret = Ret(None)

FindInit ==
    /\ fr_git \in [Dirs -> GitDirStates]
    /\ fr_start \in Dirs
    /\ fr_pc = "start"
    /\ fr_path = <<>>
    /\ fr_parent = <<>>
    /\ fr_ret = Ret(None)
    /\ kv_in = [fields |-> <<>>, tail |-> <<>>]
    /\ kv_raw = <<>>
    /\ kv_pc = "off"
    /\ kv_obj = KVNone
    /\ kv_ser = KVNoBytes
    /\ kv_obj2 = KVNone
    /\ st_foreign = NoForeign
    /\ st_fs = EmptyFs
    /\ st_args = NoArgs
    /\ st_obj = NoObject
    /\ st_pc = "off"
    /\ st_ret = Ret(<<>>)
    /\ st_writes = 0
    /\ rc_obj = NoObject
    /\ rc_fs = EmptyFs
    /\ rc_proc = RcIdleProc

SpecKV == KVInit /\ [][KVNext]_vars

SpecStore == StInit /\ [][StNext]_vars

SpecRace == RcInit /\ [][RcNext]_vars

\* find_repo runs in one thread that is never suspended for good: each of
\* its steps is taken when it is enabled
SpecFind == FindInit /\ [][FindNext]_vars /\ WF_vars(FindNext)

====
